---- MODULE Spec2Model ----
(***************************************************************************)
(* RZipFile (core/archive/rzip.cpp): the chunked, zlib-compressed          *)
(* container used for save states.  The model keeps the file byte for      *)
(* byte: an 8-byte magic, a 4-byte maximum chunk size, an 8-byte total     *)
(* size, then chunk frames (4-byte compressed length, payload).            *)
(*                                                                         *)
(* Scaling.  Integers are stored little-endian, one digit per byte, in     *)
(* base ByteRadix (256 in the program), so a u32 holds ByteRadix^4 values  *)
(* and a u64 ByteRadix^8: the 32-bit boundary the legacy rule of Open      *)
(* looks at is then within reach of a small run.  The writer's maximum     *)
(* chunk size (1024 * 1024 in the program) is MaxChunkBytes.  Payload      *)
(* bytes are 0 or 1.                                                       *)
(***************************************************************************)
EXTENDS Integers, Sequences, FiniteSets, TLC

(* ------------------------------ bounds ------------------------------ *)
ByteRadix == 2
MaxChunkBytes == 2
MaxWrites == 2
MaxFaults == 1
MaxOpens == 2
MaxFrames == 3
\* a Write or a Read may span a whole chunk and one byte more; the
\* application saves at most two full chunks
MaxWriteLen == MaxChunkBytes + 1
MaxReadLen == MaxChunkBytes + 1
MaxTotal == 2 * MaxChunkBytes
\* the loop iterations a fault may hit
FaultAts == {0, 1}

(* ------------------------- program constants ------------------------ *)
\* const u8 RZipHeader[8] = { '#', 'R', 'Z', 'I', 'P', 'v', 1, '#' }
RZipHeader == <<35, 82, 90, 73, 80, 118, 1, 35>>
SizeofHeader == 8
SizeofMaxChunkSize == 4
SizeofSize == 8
SizeofU32 == 4

U32 == ByteRadix ^ SizeofU32
U64 == ByteRadix ^ SizeofSize
\* size_t and uLongf are as wide as a u32 or as a u64, as the target has
\* them.  A length that fits a u32 is handled the same at either width;
\* a length that does not can only be passed where size_t is the wider.
SizeT == U64

Byte == {0, 1}

Min(a, b) == IF a < b THEN a ELSE b
Max(a, b) == IF a > b THEN a ELSE b

(* ----------------------- little-endian integers --------------------- *)
\* what fwrite(&v, n, 1, file) puts in the file for an n-byte integer
LE(v, n) == [i \in 1..n |-> (v \div (ByteRadix ^ (i - 1))) % ByteRadix]

RECURSIVE UnLE(_)
\* what fread(&v, n, 1, file) leaves in v
UnLE(bs) == IF bs = <<>> THEN 0 ELSE bs[1] + ByteRadix * UnLE(Tail(bs))

(* ------------------------------- zlib ------------------------------- *)
\* A stand-in for zlib's stream format with the properties the container
\* relies on: the output is never empty, it is not the input, it carries
\* a header and a checksum that uncompress verifies, and uncompress
\* refuses output that does not fit the destination.
RECURSIVE SumSeq(_)
SumSeq(s) == IF s = <<>> THEN 0 ELSE s[1] + SumSeq(Tail(s))

Flip(s) == [i \in 1..Len(s) |-> 1 - s[i]]

Deflate(s) == <<1>> \o Flip(s) \o <<SumSeq(s) % 2>>

\* compress(dest, &destLen, source, sourceLen): Z_BUF_ERROR when the
\* output does not fit destLen
compress(src, destLen) ==
    IF Len(Deflate(src)) > destLen
    THEN [rc |-> "Z_BUF_ERROR", out |-> <<>>]
    ELSE [rc |-> "Z_OK", out |-> Deflate(src)]

\* uncompress(dest, &destLen, source, sourceLen)
uncompress(zipped, destLen) ==
    IF Len(zipped) < 2 \/ zipped[1] # 1
    THEN [rc |-> "Z_DATA_ERROR", out |-> <<>>]
    ELSE LET body == Flip(SubSeq(zipped, 2, Len(zipped) - 1)) IN
         IF \E i \in 1..Len(body) : body[i] \notin Byte
         THEN [rc |-> "Z_DATA_ERROR", out |-> <<>>]
         ELSE IF Len(body) > destLen
         THEN [rc |-> "Z_BUF_ERROR", out |-> <<>>]
         ELSE IF zipped[Len(zipped)] # SumSeq(body) % 2
         THEN [rc |-> "Z_DATA_ERROR", out |-> <<>>]
         ELSE [rc |-> "Z_OK", out |-> body]

(* ------------------------------ stdio ------------------------------- *)
\* The file on disk: whether it exists, and its bytes.
NoFile == [exists |-> FALSE, bytes |-> <<>>]

\* bytes of the file after writing bs at position pos (a hole left by a
\* seek past the end reads as zeros)
PutBytes(bytes, pos, bs) ==
    LET n == Max(Len(bytes), pos + Len(bs)) IN
    [i \in 1..n |->
        IF i > pos /\ i <= pos + Len(bs) THEN bs[i - pos]
        ELSE IF i <= Len(bytes) THEN bytes[i]
        ELSE 0]

\* the bytes fread can deliver at pos when asked for n
Avail(bytes, pos, n) ==
    IF pos >= Len(bytes) THEN <<>>
    ELSE SubSeq(bytes, pos + 1, Min(Len(bytes), pos + n))

(* ------------------------------ faults ------------------------------ *)
\* A fault names the library call that fails inside one operation: the
\* loop iteration it hits (at), the call (kind) and how many bytes the
\* failing fwrite still put in the file, or the failing fread still
\* consumed (part).
NoFault == [at |-> 0, kind |-> "none", part |-> 0]
Fault(at, kind, part) == [at |-> at, kind |-> kind, part |-> part]

(* ------------------------------ state ------------------------------- *)
VARIABLES
    rz,       \* the RZipFile object
    disk,     \* the file at the path
    status,   \* "running", or "aborted" once a verify() failed or the
              \* process crashed
    src,      \* the byte stream the application saves (which pattern)
    wr,       \* history of the last write session on the path
    rd,       \* history of the current read session
    last,     \* the last call
    faults,   \* number of faults injected so far
    opens,    \* number of Open calls so far
    ref       \* for an archive made outside the program: how it was made,
              \* and a second RZipFile reading its copy without the
              \* zero-length frames

vars == <<rz, disk, status, src, wr, rd, last, faults, opens, ref>>

NullChunk == [alloc |-> FALSE, buf |-> <<>>]

\* RZipFile as constructed (rzip.h member initialisers)
NewRZipFile ==
    [file |-> "null", pos |-> 0, writing |-> FALSE, size |-> 0,
     maxChunkSize |-> 0, chunk |-> NullChunk, chunkIndex |-> 0,
     chunkSize |-> 0]

(* ------------------------------ Close ------------------------------- *)
\* (a slip: the file released, the chunk buffer kept)
CloseLeaveChunk(h) ==
    IF h.file # "null" THEN [h EXCEPT !.file = "null", !.pos = 0] ELSE h

\* void RZipFile::Close()
Close(h) ==
    IF h.file # "null"
    THEN [h EXCEPT !.file = "null", !.pos = 0,
                   !.chunk = IF h.chunk.alloc THEN NullChunk ELSE h.chunk]
    ELSE h

(* ------------------------------- Open ------------------------------- *)
\* what a short fread leaves in an n-byte integer that held old
PartialLE(old, got, n) == UnLE(got \o SubSeq(LE(old, n), Len(got) + 1, n))

\* (a slip: the size masked, the file position left where it is)
LegacyRuleNoRewind(h) ==
    IF h.size \div U32 # 0 THEN [h EXCEPT !.size = h.size % U32] ELSE h

\* lines 43-48: savestates created on 32-bit platforms used to have a
\* 32-bit size
LegacyRule(h) ==
    IF h.size \div U32 # 0
    THEN [h EXCEPT !.size = h.size % U32, !.pos = h.pos - 4]
    ELSE h

\* (a slip: the error path returns without Close)
AbandonOpen(h) == h

\* lines 39-41 and 64-66: the error path of Open calls Close()
AbortOpen(h) == Close(h)

\* bool RZipFile::Open(path, false), after verify(file == nullptr)
OpenRead(h, d, fault) ==
    IF ~d.exists \/ fault.kind = "fopen"
    THEN [rz |-> h, disk |-> d, ret |-> FALSE]
    ELSE
    LET b == d.bytes
        header == Avail(b, 0, SizeofHeader)
        okHeader == Len(header) = SizeofHeader /\ fault.kind # "magic"
                    /\ header = RZipHeader
        mcs == Avail(b, SizeofHeader, SizeofMaxChunkSize)
        okMcs == okHeader /\ Len(mcs) = SizeofMaxChunkSize /\ fault.kind # "mcs"
        sz == Avail(b, SizeofHeader + SizeofMaxChunkSize, SizeofSize)
        okSize == okMcs /\ Len(sz) = SizeofSize /\ fault.kind # "size"
        h1 == [h EXCEPT !.file = "rb",
                 !.maxChunkSize =
                    IF okMcs THEN UnLE(mcs)
                    ELSE IF okHeader /\ fault.kind # "mcs"
                    THEN PartialLE(h.maxChunkSize, mcs, SizeofMaxChunkSize)
                    ELSE h.maxChunkSize,
                 !.size =
                    IF okSize THEN UnLE(sz)
                    ELSE IF okMcs /\ fault.kind # "size"
                    THEN PartialLE(h.size, sz, SizeofSize)
                    ELSE h.size]
        h2 == LegacyRule([h1 EXCEPT !.pos = SizeofHeader + SizeofMaxChunkSize
                                              + SizeofSize])
    IN  IF ~okSize
        THEN [rz |-> AbortOpen(h1), disk |-> d, ret |-> FALSE]
        ELSE [rz |-> [h2 EXCEPT
                        !.chunk = [alloc |-> TRUE, buf |-> <<>>],
                        !.chunkIndex = 0,
                        !.chunkSize = 0,
                        !.writing = FALSE],
              disk |-> d, ret |-> TRUE]

\* bool RZipFile::Open(path, true), after verify(file == nullptr)
OpenWrite(h, d, fault) ==
    IF fault.kind = "fopen"
    THEN [rz |-> h, disk |-> d, ret |-> FALSE]
    ELSE
    LET h1 == [h EXCEPT !.file = "wb", !.writing = TRUE, !.size = 0,
                        !.maxChunkSize = MaxChunkBytes]
        mcs == LE(h1.maxChunkSize, SizeofMaxChunkSize)
        failed(bs) == [rz |-> AbortOpen(h1),
                       disk |-> [exists |-> TRUE, bytes |-> bs],
                       ret |-> FALSE]
    IN  IF fault.kind = "magic"
        THEN failed(SubSeq(RZipHeader, 1, Min(fault.part, SizeofHeader - 1)))
        ELSE IF fault.kind = "mcs"
        THEN failed(RZipHeader
                    \o SubSeq(mcs, 1, Min(fault.part, SizeofMaxChunkSize - 1)))
        ELSE IF fault.kind = "seek"
        THEN failed(RZipHeader \o mcs)
        ELSE [rz |-> [h1 EXCEPT !.pos = SizeofHeader + SizeofMaxChunkSize
                                        + SizeofSize],
              disk |-> [exists |-> TRUE, bytes |-> RZipHeader \o mcs],
              ret |-> TRUE]

(* ------------------------------- Read ------------------------------- *)
\* fread(buf, n, 1, file) at the handle's position: the bytes, and
\* whether the whole item was there (a stream opened "wb" cannot be read)
CanRead(h) == h.file = "rb"
CanWrite(h) == h.file = "wb"

\* (a slip: the refill starts from the old fill and offset)
KeepChunkState(h) == h

\* Read, lines 97-98 (Skip, lines 144-145): chunkSize = 0; chunkIndex = 0
ResetChunkState(h) == [h EXCEPT !.chunkSize = 0, !.chunkIndex = 0]

\* (a slip: no frame taken for a zero-length one)
NeverEmptyFrame(zippedSize) == FALSE

\* Read, lines 105-106: if (zippedSize == 0) continue
IsEmptyFrame(zippedSize) == zippedSize = 0

\* Read, lines 95-124: the chunk buffer is exhausted, pull the next frame.
\* res is "break", "fault" (a break the injected fault caused), "continue"
\* (zero-length frame) or "filled".
ReadFill(h, bytes, fault, it) ==
    LET h0 == ResetChunkState(h)
        hit(k) == fault.kind = k /\ fault.at = it
        lenBytes == Avail(bytes, h.pos, SizeofU32)
        zippedSize == UnLE(lenBytes)
        p1 == h.pos + SizeofU32
        zipped == Avail(bytes, p1, zippedSize)
        tl == h.maxChunkSize
        u == uncompress(zipped, tl)
    IN  IF ~CanRead(h) THEN [rz |-> h0, res |-> "break"]
        ELSE IF hit("len")
        THEN [rz |-> [h0 EXCEPT !.pos = h.pos + Min(fault.part, Len(lenBytes))],
              res |-> "fault"]
        ELSE IF Len(lenBytes) # SizeofU32
        THEN [rz |-> [h0 EXCEPT !.pos = h.pos + Len(lenBytes)], res |-> "break"]
        ELSE IF IsEmptyFrame(zippedSize)
        THEN [rz |-> [h0 EXCEPT !.pos = p1], res |-> "continue"]
        ELSE IF hit("payload")
        THEN [rz |-> [h0 EXCEPT !.pos = p1 + Min(fault.part, Len(zipped))],
              res |-> "fault"]
        ELSE IF Len(zipped) # zippedSize
        THEN [rz |-> [h0 EXCEPT !.pos = p1 + Len(zipped)], res |-> "break"]
        ELSE IF u.rc # "Z_OK"
        THEN [rz |-> [h0 EXCEPT !.pos = p1 + zippedSize], res |-> "break"]
        ELSE IF hit("uncompress")
        THEN [rz |-> [h0 EXCEPT !.pos = p1 + zippedSize], res |-> "fault"]
        ELSE [rz |-> [h0 EXCEPT !.pos = p1 + zippedSize,
                                !.chunk = [alloc |-> h.chunk.alloc, buf |-> u.out],
                                !.chunkSize = Len(u.out) % U32],
              res |-> "filled"]

\* memcpy(p, chunk + chunkIndex, l): the bytes copied; junk stands for
\* whatever a copy from a null chunk pointer yields when it does not crash
CopyOut(h, l, junk) ==
    [i \in 1..l |->
        IF h.chunk.alloc /\ h.chunkIndex + i <= Len(h.chunk.buf)
        THEN h.chunk.buf[h.chunkIndex + i]
        ELSE junk]

RECURSIVE ReadLoop(_, _, _, _, _)
\* the while loop of Read; st = [rz, rv, out, it, nullDeref, tripped,
\* spin]: out is what reached the caller's buffer, nullDeref says that
\* memcpy read through a null chunk pointer, tripped that the fault was
\* hit, spin that an iteration took no byte with bytes left in the chunk
\* buffer, which every later iteration then repeats
ReadLoop(st, bytes, length, fault, junk) ==
    IF ~(st.rv < length) THEN st
    ELSE
    LET h == st.rz
        f == IF h.chunkIndex = h.chunkSize
             THEN ReadFill(h, bytes, fault, st.it)
             ELSE [rz |-> h, res |-> "filled"]
        it1 == IF h.chunkIndex = h.chunkSize THEN st.it + 1 ELSE st.it
        g == f.rz
        l == Min((g.chunkSize - g.chunkIndex) % U32,
                 ((length % U32) - st.rv) % SizeT)
    IN  IF f.res \in {"break", "fault"}
        THEN [st EXCEPT !.rz = g, !.it = it1, !.tripped = f.res = "fault"]
        ELSE IF f.res = "continue"
        THEN ReadLoop([st EXCEPT !.rz = g, !.it = it1], bytes, length, fault, junk)
        ELSE IF l = 0 /\ g.chunkIndex # g.chunkSize
        THEN [st EXCEPT !.rz = g, !.it = it1, !.spin = TRUE]
        ELSE ReadLoop([rz |-> [g EXCEPT !.chunkIndex = (g.chunkIndex + l) % U32],
                       rv |-> (st.rv + l) % SizeT,
                       out |-> st.out \o CopyOut(g, l, junk),
                       it |-> it1,
                       nullDeref |-> st.nullDeref \/ (l > 0 /\ ~g.chunk.alloc),
                       tripped |-> FALSE,
                       spin |-> FALSE],
                      bytes, length, fault, junk)

\* size_t RZipFile::Read(void *data, size_t length), after verify(file != nullptr)
Read(h, bytes, length, fault, junk) ==
    ReadLoop([rz |-> h, rv |-> 0, out |-> <<>>, it |-> 0, nullDeref |-> FALSE,
              tripped |-> FALSE, spin |-> FALSE],
             bytes, length, fault, junk)

(* ------------------------------- Skip ------------------------------- *)
\* Skip, lines 142-171: the chunk buffer is exhausted, pull the next frame
SkipFill(h, bytes, fault, it) ==
    LET h0 == ResetChunkState(h)
        hit(k) == fault.kind = k /\ fault.at = it
        lenBytes == Avail(bytes, h.pos, SizeofU32)
        zippedSize == UnLE(lenBytes)
        p1 == h.pos + SizeofU32
        zipped == Avail(bytes, p1, zippedSize)
        tl == h.maxChunkSize
        u == uncompress(zipped, tl)
    IN  IF ~CanRead(h) THEN [rz |-> h0, res |-> "break"]
        ELSE IF hit("len")
        THEN [rz |-> [h0 EXCEPT !.pos = h.pos + Min(fault.part, Len(lenBytes))],
              res |-> "fault"]
        ELSE IF Len(lenBytes) # SizeofU32
        THEN [rz |-> [h0 EXCEPT !.pos = h.pos + Len(lenBytes)], res |-> "break"]
        ELSE IF zippedSize = 0
        THEN [rz |-> [h0 EXCEPT !.pos = p1], res |-> "continue"]
        ELSE IF hit("payload")
        THEN [rz |-> [h0 EXCEPT !.pos = p1 + Min(fault.part, Len(zipped))],
              res |-> "fault"]
        ELSE IF Len(zipped) # zippedSize
        THEN [rz |-> [h0 EXCEPT !.pos = p1 + Len(zipped)], res |-> "break"]
        ELSE IF u.rc # "Z_OK"
        THEN [rz |-> [h0 EXCEPT !.pos = p1 + zippedSize], res |-> "break"]
        ELSE IF hit("uncompress")
        THEN [rz |-> [h0 EXCEPT !.pos = p1 + zippedSize], res |-> "fault"]
        ELSE [rz |-> [h0 EXCEPT !.pos = p1 + zippedSize,
                                !.chunk = [alloc |-> h.chunk.alloc, buf |-> u.out],
                                !.chunkSize = Len(u.out) % U32],
              res |-> "filled"]

RECURSIVE SkipLoop(_, _, _, _)
\* the while loop of Skip; st = [rz, rv, it, tripped, spin]
SkipLoop(st, bytes, length, fault) ==
    IF ~(st.rv < length) THEN st
    ELSE
    LET h == st.rz
        f == IF h.chunkIndex = h.chunkSize
             THEN SkipFill(h, bytes, fault, st.it)
             ELSE [rz |-> h, res |-> "filled"]
        it1 == IF h.chunkIndex = h.chunkSize THEN st.it + 1 ELSE st.it
        g == f.rz
        l == Min((g.chunkSize - g.chunkIndex) % U32,
                 ((length % U32) - st.rv) % SizeT)
    IN  IF f.res \in {"break", "fault"}
        THEN [st EXCEPT !.rz = g, !.it = it1, !.tripped = f.res = "fault"]
        ELSE IF f.res = "continue"
        THEN SkipLoop([st EXCEPT !.rz = g, !.it = it1], bytes, length, fault)
        ELSE IF l = 0 /\ g.chunkIndex # g.chunkSize
        THEN [st EXCEPT !.rz = g, !.it = it1, !.spin = TRUE]
        ELSE SkipLoop([rz |-> [g EXCEPT !.chunkIndex = (g.chunkIndex + l) % U32],
                       rv |-> (st.rv + l) % SizeT,
                       it |-> it1,
                       tripped |-> FALSE,
                       spin |-> FALSE],
                      bytes, length, fault)

\* (a slip: Skip as a move inside the chunk at hand, no frame pulled)
SkipWithinChunk(h, bytes, length, fault) ==
    LET l == Min(h.chunkSize - h.chunkIndex, length) IN
    [rz |-> [h EXCEPT !.chunkIndex = h.chunkIndex + l], rv |-> l, it |-> 0,
     tripped |-> FALSE, spin |-> FALSE]

\* size_t RZipFile::Skip(size_t length), after verify(file != nullptr)
Skip(h, bytes, length, fault) ==
    SkipLoop([rz |-> h, rv |-> 0, it |-> 0, tripped |-> FALSE, spin |-> FALSE],
             bytes, length, fault)

(* ------------------------------- Write ------------------------------ *)
\* (a slip: the rest of the input taken as one chunk)
ChunkLenWhole(maxChunkSize, remaining) == remaining % U32

\* line 192: std::min(maxChunkSize, (u32)(length - rv))
ChunkLen(maxChunkSize, remaining) == Min(maxChunkSize, remaining % U32)

RECURSIVE WriteLoop(_, _, _)
\* the while loop of Write; st = [rz, bytes, rv, it, ends, spin, fatal,
\* tripped]: ends
\* lists, for each frame written whole, the file offset just past it and
\* its uncompressed length; spin is set when an iteration would accept
\* no byte and start over
WriteLoop(st, data, fault) ==
    IF ~(st.rv < Len(data)) THEN st
    ELSE
    LET h == st.rz
        hit(k) == fault.kind = k /\ fault.at = st.it
        maxZippedSize == (h.maxChunkSize + h.maxChunkSize \div 1000 + 12) % SizeT
        uncompressedSize == ChunkLen(h.maxChunkSize, Len(data) - st.rv)
        c == compress(SubSeq(data, st.rv + 1, st.rv + uncompressedSize),
                      maxZippedSize)
        sz == LE(Len(c.out) % U32, SizeofU32)
        end == h.pos + SizeofU32 + Len(c.out)
    IN  IF c.rc # "Z_OK" THEN st
        ELSE IF hit("compress") THEN [st EXCEPT !.tripped = TRUE]
        ELSE IF ~CanWrite(h) THEN st
        ELSE IF hit("len")
        THEN LET k == Min(fault.part, SizeofU32 - 1) IN
             [st EXCEPT !.bytes = PutBytes(st.bytes, h.pos, SubSeq(sz, 1, k)),
                        !.rz.pos = h.pos + k, !.tripped = TRUE]
        ELSE IF hit("payload")
        THEN LET k == Min(fault.part, Len(c.out) - 1) IN
             [st EXCEPT !.bytes = PutBytes(st.bytes, h.pos,
                                           sz \o SubSeq(c.out, 1, k)),
                        !.rz.pos = h.pos + SizeofU32 + k, !.tripped = TRUE]
        ELSE IF uncompressedSize = 0
        THEN [st EXCEPT !.bytes = PutBytes(st.bytes, h.pos, sz \o c.out),
                        !.rz.pos = end, !.spin = TRUE]
        ELSE WriteLoop(
               [st EXCEPT !.bytes = PutBytes(st.bytes, h.pos, sz \o c.out),
                          !.rz.pos = end,
                          !.rz.size = (h.size + uncompressedSize) % U64,
                          !.rv = (st.rv + uncompressedSize) % SizeT,
                          !.it = st.it + 1,
                          !.ends = Append(st.ends, <<end, uncompressedSize>>)],
               data, fault)

\* (a slip: the size written, the file position left behind it)
PatchSizeStay(st, fault, value) ==
    LET at == SizeofHeader + SizeofMaxChunkSize IN
    [st EXCEPT !.bytes = PutBytes(st.bytes, at, LE(value, SizeofSize)),
               !.rz.pos = at + SizeofSize,
               !.fatal = fault.kind \in {"seek1", "size", "seek2"}
                         \/ ~CanWrite(st.rz),
               !.tripped = fault.kind \in {"seek1", "size", "seek2"}]

\* lines 212-215 with value for the 8 bytes written: remember the
\* position, seek to the size field, write it, seek back; fatal says that
\* one of the three verify() calls failed
PatchSize(st, fault, value) ==
    LET h == st.rz
        pos == h.pos
        at == SizeofHeader + SizeofMaxChunkSize
        field == LE(value, SizeofSize)
    IN  IF fault.kind = "seek1" THEN [st EXCEPT !.fatal = TRUE, !.tripped = TRUE]
        ELSE IF ~CanWrite(h)
        THEN [st EXCEPT !.fatal = TRUE, !.rz.pos = at]
        ELSE IF fault.kind = "size"
        THEN LET k == Min(fault.part, SizeofSize - 1) IN
             [st EXCEPT !.fatal = TRUE, !.tripped = TRUE, !.rz.pos = at + k,
                        !.bytes = PutBytes(st.bytes, at, SubSeq(field, 1, k))]
        ELSE IF fault.kind = "seek2"
        THEN [st EXCEPT !.fatal = TRUE, !.tripped = TRUE,
                        !.rz.pos = at + SizeofSize,
                        !.bytes = PutBytes(st.bytes, at, field)]
        ELSE [st EXCEPT !.bytes = PutBytes(st.bytes, at, field), !.rz.pos = pos]

\* (a slip: the count of this call in place of the running total)
WriteHeaderOfCall(st, fault) == PatchSize(st, fault, st.rv)

\* lines 212-215: the header gets the handle's size
WriteHeader(st, fault) == PatchSize(st, fault, st.rz.size)

\* size_t RZipFile::Write(const void *data, size_t length), after
\* verify(file != nullptr)
Write(h, bytes, data, fault) ==
    LET st == WriteLoop([rz |-> h, bytes |-> bytes, rv |-> 0, it |-> 0,
                         ends |-> <<>>, spin |-> FALSE, fatal |-> FALSE,
                         tripped |-> FALSE],
                        data, fault)
    IN  IF st.spin THEN st ELSE WriteHeader(st, fault)

(* --------------------------- the application ------------------------ *)
\* The byte streams the application saves: byte i of stream k.
Sources == {0, 1}
SrcByte(k, i) == IF k = 0 THEN i % 2 ELSE (IF i % 3 = 0 THEN 1 ELSE 0)
\* the n bytes of stream k after the first from
Data(k, from, n) == [j \in 1..n |-> SrcByte(k, from + j)]

NoWrite == [made |-> FALSE, closed |-> FALSE, calls |-> 0, sum |-> 0,
            accepted |-> <<>>, full |-> TRUE, ends |-> <<>>, kept |-> -1]
NoRead == [consumed |-> 0, clean |-> TRUE]

OpenReadFaults == {Fault(0, k, 0) : k \in {"fopen", "magic", "mcs", "size"}}
\* how much of the item a failing fwrite or fread still transferred
Parts == {0, 2}
OpenWriteFaults ==
    {Fault(0, "fopen", 0), Fault(0, "seek", 0)}
    \cup {Fault(0, k, p) : k \in {"magic", "mcs"}, p \in Parts}
ReadFaults ==
    {Fault(a, "uncompress", 0) : a \in FaultAts}
    \cup {Fault(a, k, p) : a \in FaultAts, k \in {"len", "payload"},
                           p \in Parts}
WriteFaults ==
    {Fault(a, "compress", 0) : a \in FaultAts}
    \cup {Fault(a, k, p) : a \in FaultAts, k \in {"len", "payload"},
                           p \in Parts}
    \cup {Fault(0, "seek1", 0), Fault(0, "seek2", 0)}
    \cup {Fault(0, "size", p) : p \in Parts}

\* the faults an operation may be given now
Allowed(fs) == IF faults < MaxFaults THEN fs \cup {NoFault} ELSE {NoFault}
Charge(fault) == IF fault = NoFault THEN faults ELSE faults + 1

\* no archive from outside
NoRef == [rz |-> NewRZipFile, bytes |-> <<>>, legacy |-> FALSE, v |-> 0,
          stream |-> <<>>, shape |-> <<>>]

\* What an earlier run of the program left at the path when it saved the
\* first n bytes of stream k with one Write: the file, and its history.
SavedBy(k, n) ==
    LET o == OpenWrite(NewRZipFile, NoFile, NoFault)
        w == Write(o.rz, o.disk.bytes, Data(k, 0, n), NoFault)
    IN  [disk |-> [exists |-> TRUE, bytes |-> w.bytes],
         wr |-> [NoWrite EXCEPT !.made = TRUE, !.closed = TRUE, !.calls = 1,
                                !.sum = w.rv,
                                !.accepted = SubSeq(Data(k, 0, n), 1, w.rv),
                                !.ends = w.ends]]

\* The process starts with a fresh RZipFile; the path holds nothing, or
\* the archive an earlier run saved.
Init ==
    /\ rz = NewRZipFile
    /\ status = "running"
    /\ src \in Sources
    /\ \/ disk = NoFile /\ wr = NoWrite
       \/ \E n \in 0..MaxWriteLen :
             disk = SavedBy(src, n).disk /\ wr = SavedBy(src, n).wr
    /\ rd = NoRead
    /\ last = "none"
    /\ faults = 0
    /\ opens = 0
    /\ ref = NoRef

\* verify(...) failed: the process ends, and its objects with it; the
\* file stays as it is
Die ==
    /\ status' = "aborted"
    /\ rz' = NewRZipFile
    /\ rd' = NoRead
    /\ last' = "abort"
    /\ UNCHANGED <<disk, src, wr, faults, opens>>

DoOpenRead(fault) ==
    /\ status = "running"
    /\ opens < MaxOpens
    /\ IF rz.file # "null" THEN Die
       ELSE LET r == OpenRead(rz, disk, fault) IN
            /\ fault = NoFault \/ r # OpenRead(rz, disk, NoFault)
            /\ rz' = r.rz
            /\ disk' = r.disk
            /\ rd' = NoRead
            /\ last' = IF r.ret THEN "OpenRead" ELSE "OpenFailed"
            /\ faults' = Charge(fault)
            /\ opens' = opens + 1
            /\ UNCHANGED <<status, src, wr>>

DoOpenWrite(fault) ==
    /\ status = "running"
    /\ opens < MaxOpens
    /\ IF rz.file # "null" THEN Die
       ELSE LET r == OpenWrite(rz, disk, fault) IN
            /\ rz' = r.rz
            /\ disk' = r.disk
            /\ wr' = IF fault.kind = "fopen" THEN wr
                     ELSE [NoWrite EXCEPT !.made = r.ret]
            /\ last' = IF r.ret THEN "OpenWrite" ELSE "OpenFailed"
            /\ faults' = Charge(fault)
            /\ opens' = opens + 1
            /\ UNCHANGED <<status, src, rd>>

DoClose ==
    /\ status = "running"
    /\ rz' = Close(rz)
    /\ wr' = IF rz.file = "wb" THEN [wr EXCEPT !.closed = TRUE] ELSE wr
    /\ rd' = NoRead
    /\ last' = "Close"
    /\ UNCHANGED <<disk, status, src, faults, opens>>

DoRead(length, fault, junk, crash) ==
    /\ status = "running"
    /\ IF rz.file = "null" THEN Die /\ junk = 0 /\ ~crash
       ELSE LET r == Read(rz, disk.bytes, length, fault, junk) IN
            /\ rz.chunk.alloc => (junk = 0 /\ ~crash)
            /\ fault = NoFault \/ r.tripped
            /\ r.nullDeref \/ (junk = 0 /\ ~crash)
            /\ rz' = r.rz
            /\ status' = IF (r.nullDeref /\ crash) \/ r.spin THEN "aborted"
                         ELSE "running"
            /\ rd' = [consumed |-> rd.consumed + r.rv,
                      clean |-> rd.clean /\ fault = NoFault]
            /\ last' = IF r.nullDeref THEN "ReadNull" ELSE "Read"
            /\ faults' = Charge(fault)
            /\ UNCHANGED <<disk, src, wr, opens>>

DoSkip(length, fault) ==
    /\ status = "running"
    /\ IF rz.file = "null" THEN Die
       ELSE LET r == Skip(rz, disk.bytes, length, fault) IN
            /\ fault = NoFault \/ r.tripped
            /\ rz' = r.rz
            /\ rd' = [consumed |-> rd.consumed + r.rv,
                      clean |-> rd.clean /\ fault = NoFault]
            /\ status' = IF r.spin THEN "aborted" ELSE "running"
            /\ last' = "Skip"
            /\ faults' = Charge(fault)
            /\ UNCHANGED <<disk, src, wr, opens>>

\* The application hands Write the next length bytes of its stream; a
\* session takes at most maxCalls calls and maxTotal bytes.
WriteCall(length, fault, maxCalls, maxTotal) ==
    /\ status = "running"
    /\ IF rz.file = "null" THEN Die
       ELSE LET data == Data(src, Len(wr.accepted), length)
                r == Write(rz, disk.bytes, data, fault)
            IN
            /\ wr.calls < maxCalls
            /\ Len(wr.accepted) + length <= maxTotal
            /\ fault = NoFault \/ r.tripped
            /\ rz' = r.rz
            /\ disk' = [disk EXCEPT !.bytes = r.bytes]
            /\ status' = IF r.fatal \/ r.spin THEN "aborted" ELSE "running"
            /\ wr' = IF rz.file = "wb"
                     THEN [wr EXCEPT
                             !.calls = wr.calls + 1,
                             !.sum = wr.sum + r.rv,
                             !.accepted = wr.accepted \o SubSeq(data, 1, r.rv),
                             !.full = wr.full /\ r.rv = length,
                             !.ends = wr.ends \o r.ends]
                     ELSE wr
            /\ last' = IF r.fatal THEN "WriteFatal" ELSE "Write"
            /\ faults' = Charge(fault)
            /\ UNCHANGED <<src, rd, opens>>

DoWrite(length, fault) == WriteCall(length, fault, MaxWrites, MaxTotal)

\* The file loses its tail: only the header and the first k frames stay.
Truncate(k) ==
    /\ status = "running"
    /\ rz.file = "null"
    /\ wr.made /\ wr.closed /\ wr.full /\ wr.kept = -1
    /\ k < Len(wr.ends)
    /\ disk' = [disk EXCEPT !.bytes =
                  SubSeq(disk.bytes, 1,
                         IF k = 0 THEN SizeofHeader + SizeofMaxChunkSize + SizeofSize
                         ELSE wr.ends[k][1])]
    /\ wr' = [wr EXCEPT !.kept = k]
    /\ last' = "Truncate"
    /\ UNCHANGED <<rz, status, src, rd, faults, opens>>

Next ==
    \/ \E f \in Allowed(OpenReadFaults) : DoOpenRead(f) /\ UNCHANGED ref
    \/ \E f \in Allowed(OpenWriteFaults) : DoOpenWrite(f) /\ UNCHANGED ref
    \/ DoClose /\ UNCHANGED ref
    \/ \E n \in 0..MaxReadLen, f \in Allowed(ReadFaults), j \in Byte,
          c \in BOOLEAN : DoRead(n, f, j, c) /\ UNCHANGED ref
    \/ \E n \in 0..MaxReadLen, f \in Allowed(ReadFaults) :
          DoSkip(n, f) /\ UNCHANGED ref
    \/ \E n \in 0..MaxWriteLen, f \in Allowed(WriteFaults) :
          DoWrite(n, f) /\ UNCHANGED ref
    \/ \E k \in 0..MaxTotal : Truncate(k) /\ UNCHANGED ref

Spec == Init /\ [][Next]_vars

(* ------------------- saves that reach the u32 range ------------------ *)
\* The same program, no faults, saving in a few large Writes so that
\* the total reaches the size of a u32.
BigLens == {1, U32 \div 2}
BigTotal == U32 + 1
BigWrites == 3

InitBig ==
    /\ rz = NewRZipFile
    /\ status = "running"
    /\ src \in Sources
    /\ disk = NoFile
    /\ wr = NoWrite
    /\ rd = NoRead
    /\ last = "none"
    /\ faults = 0
    /\ opens = 0
    /\ ref = NoRef

NextBig ==
    \/ DoOpenRead(NoFault) /\ UNCHANGED ref
    \/ DoOpenWrite(NoFault) /\ UNCHANGED ref
    \/ DoClose /\ UNCHANGED ref
    \/ \E n \in 0..MaxReadLen : DoRead(n, NoFault, 0, FALSE) /\ UNCHANGED ref
    \/ \E n \in 0..MaxReadLen : DoSkip(n, NoFault) /\ UNCHANGED ref
    \/ \E n \in BigLens :
          WriteCall(n, NoFault, BigWrites, BigTotal) /\ UNCHANGED ref
    \/ \E k \in 0..BigTotal : Truncate(k) /\ UNCHANGED ref

SpecBig == InitBig /\ [][NextBig]_vars

(* --------------------- archives made elsewhere ---------------------- *)
\* An archive put together outside the program: a header with a 4-byte
\* (legacy) or an 8-byte size field holding v, then one frame per entry
\* of shape: 0 stands for a frame of compressed length zero, c > 0 for a
\* frame holding the next c bytes of the stream.
Shapes ==
    UNION {[1..len -> 0..MaxChunkBytes] : len \in 1..MaxFrames}

RECURSIVE ShapeBytes(_, _, _, _)
\* the frames of shape sh from entry i on, from bytes the stream already held
ShapeBytes(k, sh, i, from) ==
    IF i > Len(sh) THEN <<>>
    ELSE IF sh[i] = 0
    THEN LE(0, SizeofU32) \o ShapeBytes(k, sh, i + 1, from)
    ELSE LET z == Deflate(Data(k, from, sh[i])) IN
         LE(Len(z), SizeofU32) \o z \o ShapeBytes(k, sh, i + 1, from + sh[i])

\* shape without its zero-length frames
RealFrames(sh) == SelectSeq(sh, LAMBDA c : c > 0)

ArchiveBytes(k, legacy, v, sh) ==
    RZipHeader \o LE(MaxChunkBytes, SizeofMaxChunkSize)
    \o LE(v, IF legacy THEN SizeofU32 ELSE SizeofSize)
    \o ShapeBytes(k, sh, 1, 0)

InitExt ==
    /\ rz = NewRZipFile
    /\ status = "running"
    /\ src \in Sources
    /\ wr = NoWrite
    /\ rd = NoRead
    /\ last = "none"
    /\ faults = 0
    /\ opens = 0
    /\ \E legacy \in BOOLEAN, sh \in Shapes :
       \E v \in {SumSeq(sh), U32 - 1} :
          /\ disk = [exists |-> TRUE, bytes |-> ArchiveBytes(src, legacy, v, sh)]
          /\ ref = [rz |-> NewRZipFile,
                    bytes |-> ArchiveBytes(src, legacy, v, RealFrames(sh)),
                    legacy |-> legacy, v |-> v,
                    stream |-> Data(src, 0, SumSeq(sh)),
                    shape |-> sh]

\* the second RZipFile takes the same calls on the copy
RefOpen ==
    ref' = [ref EXCEPT !.rz = IF ref.rz.file # "null" THEN ref.rz
                              ELSE OpenRead(ref.rz, [exists |-> TRUE,
                                                     bytes |-> ref.bytes],
                                            NoFault).rz]
RefClose == ref' = [ref EXCEPT !.rz = Close(ref.rz)]
RefRead(n) ==
    ref' = [ref EXCEPT !.rz = IF ref.rz.file = "null" THEN ref.rz
                              ELSE Read(ref.rz, ref.bytes, n, NoFault, 0).rz]
RefSkip(n) ==
    ref' = [ref EXCEPT !.rz = IF ref.rz.file = "null" THEN ref.rz
                              ELSE Skip(ref.rz, ref.bytes, n, NoFault).rz]

NextExt ==
    \/ DoOpenRead(NoFault) /\ RefOpen
    \/ DoClose /\ RefClose
    \/ \E n \in 0..MaxReadLen : DoRead(n, NoFault, 0, FALSE) /\ RefRead(n)
    \/ \E n \in 0..MaxReadLen : DoSkip(n, NoFault) /\ RefSkip(n)

SpecExt == InitExt /\ [][NextExt]_vars

(* ============================== claims ============================== *)
HeaderLen == SizeofHeader + SizeofMaxChunkSize + SizeofSize
Running == status = "running"
Reading == Running /\ rz.file = "rb"
Writing == Running /\ rz.file = "wb"

\* The file at the path is what a write session left at its Close, every
\* Write of it having returned the length it was given.
SavedWhole == wr.made /\ wr.closed /\ wr.full
Intact == SavedWhole /\ wr.kept = -1
\* the same, after a truncation to the header and the first wr.kept frames
Cut == SavedWhole /\ wr.kept >= 0

RECURSIVE KeptBytes(_, _)
\* the uncompressed length of the first k frames of the write session
KeptBytes(ends, k) == IF k = 0 THEN 0 ELSE ends[k][2] + KeptBytes(ends, k - 1)

\* what a fault-free Read of n bytes returns now
ReadNow(n) == Read(rz, disk.bytes, n, NoFault, 0)
SkipNow(n) == Skip(rz, disk.bytes, n, NoFault)

\* C1: reading back an archive that successful Writes and a Close left
\* returns, for every Read that stays within the bytes written, the full
\* requested length and exactly the next bytes of what was written,
\* however the Writes were split.
C1_RoundTrip ==
    (Reading /\ Intact /\ rd.clean) =>
        /\ rz.size = Len(wr.accepted)
        /\ \A n \in 0..MaxReadLen :
             rd.consumed + n <= Len(wr.accepted) =>
                /\ ReadNow(n).rv = n
                /\ ReadNow(n).out =
                     SubSeq(wr.accepted, rd.consumed + 1, rd.consumed + n)

\* C2: once a Write on a write-mode handle has returned, and from then on
\* through Close, the 8 bytes at file offset 12 hold the sum of the values
\* the Writes of the session returned, which is also the handle's size.
C2_SizeField ==
    (Running /\ wr.made /\ wr.calls > 0) =>
        /\ Len(disk.bytes) >= HeaderLen
        /\ UnLE(SubSeq(disk.bytes, SizeofHeader + SizeofMaxChunkSize + 1,
                       HeaderLen)) = wr.sum
        /\ wr.sum = Len(wr.accepted)
        /\ Writing => rz.size = wr.sum

\* a session with a Write that ended early is closed, the field in place
C2_Witness ==
    /\ Running /\ wr.made /\ wr.closed /\ ~wr.full /\ wr.calls = 2
    /\ wr.sum > 0 /\ wr.sum < MaxTotal
    /\ rz.file = "null"

\* C3: Open for writing followed at once by Close leaves a file of
\* exactly 20 bytes, the total size zero.
C3_EmptyArchive ==
    (Running /\ wr.made /\ wr.closed /\ wr.calls = 0) =>
        /\ Len(disk.bytes) = HeaderLen
        /\ SubSeq(disk.bytes, 1, SizeofHeader) = RZipHeader
        /\ UnLE(SubSeq(disk.bytes, SizeofHeader + 1,
                       SizeofHeader + SizeofMaxChunkSize)) = MaxChunkBytes
        /\ UnLE(SubSeq(disk.bytes, SizeofHeader + SizeofMaxChunkSize + 1,
                       HeaderLen)) = 0

\* C4: on a read-mode handle Skip(n) and Read(n) return the same count and
\* leave the same chunk buffer fill, offset and file position, and a
\* Read(m) after either returns the same count and the same bytes.
C4_SkipEquivalence ==
    Reading =>
        \A n \in 0..MaxReadLen :
            LET a == SkipNow(n)
                b == ReadNow(n)
            IN  /\ a.rv = b.rv
                /\ a.rz.chunkSize = b.rz.chunkSize
                /\ a.rz.chunkIndex = b.rz.chunkIndex
                /\ a.rz.pos = b.rz.pos
                /\ \A m \in 0..MaxReadLen :
                     LET ra == Read(a.rz, disk.bytes, m, NoFault, 0)
                         rb == Read(b.rz, disk.bytes, m, NoFault, 0)
                     IN  ra.rv = rb.rv /\ ra.out = rb.out

\* a Skip went across a chunk boundary and stopped inside a chunk, with
\* bytes left to read
C4_Witness ==
    /\ Reading /\ Intact /\ last = "Skip"
    /\ rd.consumed > MaxChunkBytes
    /\ rz.chunkIndex > 0 /\ rz.chunkIndex < rz.chunkSize
    /\ ReadNow(1).rv = 1

\* C7: an archive cut down to its header and its first k frames opens,
\* still reports the total size written, reads back as the content of
\* those k frames, short at the cut, and 0 bytes from then on.
C7_TruncatedRecovery ==
    /\ (Cut /\ faults = 0 /\ rz.file = "null") => last # "OpenFailed"
    /\ (Reading /\ Cut /\ rd.clean) =>
        LET kept == KeptBytes(wr.ends, wr.kept) IN
        /\ rz.size = Len(wr.accepted)
        /\ rd.consumed <= kept
        /\ \A n \in 0..MaxReadLen :
             LET upto == Min(rd.consumed + n, kept) IN
             /\ ReadNow(n).rv = upto - rd.consumed
             /\ ReadNow(n).out = SubSeq(wr.accepted, rd.consumed + 1, upto)
             /\ SkipNow(n).rv = upto - rd.consumed

\* C8: a failing fread, fwrite, compress or uncompress inside Read, Skip
\* or Write, the write of the size field included, ends the call early
\* with a short count and does not end the process.
C8_FailuresNotFatal ==
    /\ Writing =>
         \A n \in 0..MaxWriteLen :
         \A f \in {g \in WriteFaults : g.kind \notin {"seek1", "seek2"}} :
             LET r == Write(rz, disk.bytes, Data(src, Len(wr.accepted), n), f)
             IN  r.tripped => (~r.fatal /\ r.rv < n)
    /\ Reading =>
         \A n \in 0..MaxReadLen : \A f \in ReadFaults :
             /\ Read(rz, disk.bytes, n, f, 0).tripped =>
                  Read(rz, disk.bytes, n, f, 0).rv < n
             /\ Skip(rz, disk.bytes, n, f).tripped =>
                  Skip(rz, disk.bytes, n, f).rv < n

\* C9: after Close the handle holds no file and no chunk buffer, a second
\* Close changes nothing, and a handle without a file never holds a chunk
\* buffer (so Open's verify(file == nullptr) finds a closed handle).
C9_CloseIdempotent ==
    /\ Close(rz).file = "null"
    /\ ~Close(rz).chunk.alloc
    /\ Close(Close(rz)) = Close(rz)
    /\ last = "Close" => rz.file = "null"
    /\ rz.file = "null" => ~rz.chunk.alloc

\* a read session that had filled its chunk buffer has been closed
C9_Witness ==
    /\ Running /\ last = "Close" /\ opens > 0
    /\ rz.file = "null" /\ rz.chunkSize > 0 /\ ~rz.writing

\* C10: a Read or a Skip on a write-mode handle delivers and counts no
\* byte and reads through no absent chunk buffer; a Write on a read-mode
\* handle leaves the file as it is.
C10_ModeFixed ==
    /\ last # "ReadNull"
    /\ Writing =>
         \A n \in 0..MaxReadLen :
            /\ ~ReadNow(n).nullDeref
            /\ ReadNow(n).rv = 0
            /\ SkipNow(n).rv = 0
    /\ Reading =>
         \A n \in 0..MaxWriteLen :
            Write(rz, disk.bytes, Data(src, 0, n), NoFault).bytes = disk.bytes

\* the archive at the path was made elsewhere and is being read
ReadingExt == Reading /\ ref.shape # <<>> /\ rd.clean

\* what a Read of n bytes must return when the archive's logical stream
\* is stream and c bytes of it are consumed
Expected(stream, c, n) == SubSeq(stream, c + 1, Min(c + n, Len(stream)))

\* C5 as stated: a file with a 4-byte size field opens, records that size,
\* has its first frame parsed from offset 16 and reads as its stream.
C5_LegacyAsStated ==
    /\ (ref.legacy /\ Running /\ opens > 0 /\ rz.file = "null") =>
          last # "OpenFailed"
    /\ (ReadingExt /\ ref.legacy) =>
          /\ rz.size = ref.v
          /\ last = "OpenRead" => rz.pos = HeaderLen - 4
          /\ rd.consumed <= Len(ref.stream)
          /\ \A n \in 0..MaxReadLen :
               ReadNow(n).out = Expected(ref.stream, rd.consumed, n)

\* C5 amended: the first frame is parsed from offset 16 when its
\* compressed length is not zero; when it is zero the rule of Open does
\* not fire and parsing starts at offset 20, past that empty frame.
C5_Legacy ==
    /\ (ref.legacy /\ Running /\ opens > 0 /\ rz.file = "null") =>
          last # "OpenFailed"
    /\ (ReadingExt /\ ref.legacy) =>
          /\ rz.size = ref.v
          /\ last = "OpenRead" =>
               rz.pos = IF ref.shape[1] = 0 THEN HeaderLen ELSE HeaderLen - 4
          /\ rd.consumed <= Len(ref.stream)
          /\ \A n \in 0..MaxReadLen :
               ReadNow(n).out = Expected(ref.stream, rd.consumed, n)

\* a legacy file whose first frame holds data has been read to its end
C5_Witness ==
    /\ ReadingExt /\ ref.legacy /\ ref.shape[1] > 0 /\ last = "Read"
    /\ rd.consumed = Len(ref.stream) /\ rd.consumed > MaxChunkBytes

\* C6: an archive and its copy without the zero-length frames answer
\* every Read and Skip alike: same count, same bytes, same chunk buffer
\* fill and offset; and a zero-length frame is stepped over with fill and
\* offset left at zero and nothing decompressed.
C6_EmptyFramesTransparent ==
    (ReadingExt /\ ref.rz.file = "rb") =>
        /\ rz.size = ref.rz.size
        /\ rz.chunkSize = ref.rz.chunkSize
        /\ rz.chunkIndex = ref.rz.chunkIndex
        /\ rz.chunk = ref.rz.chunk
        /\ \A n \in 0..MaxReadLen :
             LET a == ReadNow(n)
                 b == Read(ref.rz, ref.bytes, n, NoFault, 0)
             IN  /\ a.rv = b.rv /\ a.out = b.out
                 /\ a.out = Expected(ref.stream, rd.consumed, n)
                 /\ SkipNow(n).rv = Skip(ref.rz, ref.bytes, n, NoFault).rv

\* a Read has gone past a zero-length frame that sits between two frames
\* with data
C6_Witness ==
    /\ ReadingExt /\ ref.rz.file = "rb" /\ last = "Read"
    /\ Len(ref.shape) = 3 /\ ref.shape[1] > 0 /\ ref.shape[2] = 0
    /\ ref.shape[3] > 0
    /\ rd.consumed = Len(ref.stream)

(* ------------------------- the file as frames ----------------------- *)
RECURSIVE ParseFrames(_, _, _)
\* The bytes of the file from pos on, taken as chunk frames the way the
\* reader takes them (4-byte compressed length, payload, uncompress into
\* a buffer of mcs bytes): whether they are whole frames to the end of
\* the file, and the decompressed length of each.  A frame of compressed
\* length zero counts as a frame of no bytes.
ParseFrames(bytes, pos, mcs) ==
    IF pos >= Len(bytes) THEN [ok |-> TRUE, lens |-> <<>>]
    ELSE
    LET lenBytes == Avail(bytes, pos, SizeofU32)
        zippedSize == UnLE(lenBytes)
        zipped == Avail(bytes, pos + SizeofU32, zippedSize)
        u == uncompress(zipped, mcs)
        rest == ParseFrames(bytes, pos + SizeofU32 + zippedSize, mcs)
    IN  IF \/ Len(lenBytes) # SizeofU32
           \/ Len(zipped) # zippedSize
           \/ (zippedSize # 0 /\ u.rc # "Z_OK")
           \/ ~rest.ok
        THEN [ok |-> FALSE, lens |-> <<>>]
        ELSE [ok |-> TRUE,
              lens |-> <<IF zippedSize = 0 THEN 0 ELSE Len(u.out)>>
                       \o rest.lens]

\* the uncompressed lengths of the frames a write session put down whole
EndLens(ends) == [i \in 1..Len(ends) |-> ends[i][2]]

\* all entries of lens but the last are m
FullButLast(lens, m) == \A i \in 1..Len(lens) : i < Len(lens) => lens[i] = m

\* the file of the write session, as long as nothing cut it
Written == Running /\ wr.made /\ wr.kept = -1

SizeField(bytes) ==
    UnLE(SubSeq(bytes, SizeofHeader + SizeofMaxChunkSize + 1, HeaderLen))

\* C12: after every return of Write, early returns and Writes after them
\* included, the file is a header followed by whole chunk frames whose
\* decompressed lengths sum to the total size in the header.
C12_FileWellFormed ==
    (Written /\ wr.calls > 0) =>
        LET p == ParseFrames(disk.bytes, HeaderLen, MaxChunkBytes) IN
        /\ Len(disk.bytes) >= HeaderLen
        /\ p.ok
        /\ SumSeq(p.lens) = SizeField(disk.bytes)


CeilDiv(a, b) == (a + b - 1) \div b

\* the longest single Write looked at: two full chunks and one byte more
LongWriteLen == 2 * MaxChunkBytes + 1

\* what frame i of r.ends holds, r being what a Write at file position
\* pos returned: the compressed length the file records for it, and the
\* bytes its payload decompresses to
FrameAt(r, pos, i) ==
    LET start == IF i = 1 THEN pos ELSE r.ends[i - 1][1]
        stop == r.ends[i][1]
    IN  [zippedSize |-> UnLE(SubSeq(r.bytes, start + 1, start + SizeofU32)),
         span |-> stop - start - SizeofU32,
         content |-> uncompress(SubSeq(r.bytes, start + SizeofU32 + 1, stop),
                                MaxChunkBytes)]

\* C13: one successful Write of L bytes with maximum chunk size M appends
\* exactly ceil(L / M) frames in input order, frame i holding input bytes
\* [i * M, min((i + 1) * M, L)); a Write of 0 bytes appends no frame,
\* returns 0 and still writes the size field of the header.
C13_WriteFrames ==
    Writing =>
        \A L \in 0..LongWriteLen :
            LET M == rz.maxChunkSize
                data == Data(src, Len(wr.accepted), L)
                r == Write(rz, disk.bytes, data, NoFault)
            IN  /\ r.rv = L /\ ~r.fatal
                /\ Len(r.ends) = CeilDiv(L, M)
                /\ \A i \in 1..Len(r.ends) :
                     LET lo == (i - 1) * M
                         hi == Min(i * M, L)
                         fr == FrameAt(r, rz.pos, i)
                     IN  /\ r.ends[i][2] = hi - lo
                         /\ fr.zippedSize = fr.span
                         /\ fr.content.rc = "Z_OK"
                         /\ fr.content.out = SubSeq(data, lo + 1, hi)
                /\ r.rz.pos = IF L = 0 THEN rz.pos ELSE r.ends[Len(r.ends)][1]
                /\ Len(r.bytes) >= HeaderLen
                /\ SizeField(r.bytes) = rz.size + L
                /\ SubSeq(r.bytes, HeaderLen + 1, rz.pos)
                     = SubSeq(disk.bytes, HeaderLen + 1, rz.pos)

\* a Write of a chunk and a byte has put down its two frames, and a Write
\* of 0 bytes has returned as well
C13_Witness ==
    /\ Writing /\ last = "Write" /\ wr.calls = 2 /\ faults = 0 /\ wr.full
    /\ Len(wr.accepted) = MaxChunkBytes + 1
    /\ Len(wr.ends) = 2 /\ wr.ends[1][2] = MaxChunkBytes
    /\ SizeField(disk.bytes) = MaxChunkBytes + 1


\* magic and maximum chunk size, as Open in write mode writes them
HeaderStart == RZipHeader \o LE(MaxChunkBytes, SizeofMaxChunkSize)

\* bytes a are bytes b but for the size field of the header, which a
\* may hold where b ends before it
SameButSize(a, b) ==
    /\ Len(a) >= Len(b)
    /\ Len(a) > Len(b) => Len(a) <= HeaderLen
    /\ \A i \in 1..Len(b) :
         (i <= Len(HeaderStart) \/ i > HeaderLen) => a[i] = b[i]

\* the state of the loop of a Write of data that starts now
LoopNow(data, f) ==
    WriteLoop([rz |-> rz, bytes |-> disk.bytes, rv |-> 0, it |-> 0,
               ends |-> <<>>, spin |-> FALSE, fatal |-> FALSE,
               tripped |-> FALSE],
              data, f)

\* C14: once Open in write mode has written magic and maximum chunk size,
\* bytes [0, 12) of the file never change; the header refresh of Write
\* changes bytes [12, 20) only and puts the file position back, so the
\* first frame starts at offset 20 and every Write appends right after
\* the frames written before.
C14_HeaderFrame ==
    /\ wr.made =>
         /\ Len(disk.bytes) >= Len(HeaderStart)
         /\ SubSeq(disk.bytes, 1, Len(HeaderStart)) = HeaderStart
    /\ Writing =>
         /\ rz.pos >= HeaderLen
         /\ faults = 0 =>
              rz.pos = IF wr.ends = <<>> THEN HeaderLen
                       ELSE wr.ends[Len(wr.ends)][1]
         /\ (faults = 0 /\ wr.calls > 0) => Len(disk.bytes) = rz.pos
         /\ \A n \in 0..MaxWriteLen : \A f \in WriteFaults \cup {NoFault} :
              LET data == Data(src, Len(wr.accepted), n)
                  st == LoopNow(data, f)
                  r == WriteHeader(st, f)
              IN  /\ SubSeq(st.bytes, 1, Len(HeaderStart)) = HeaderStart
                  /\ SameButSize(r.bytes, st.bytes)
                  /\ ~r.fatal => r.rz.pos = st.rz.pos

\* a second Write has appended its frame after the frame of the first
C14_Witness ==
    /\ Writing /\ last = "Write" /\ faults = 0 /\ wr.calls = 2
    /\ Len(wr.ends) = 2
    /\ wr.ends[1][1] > HeaderLen
    /\ rz.pos = wr.ends[2][1]
    /\ SizeField(disk.bytes) = 2


\* 0 <= chunkIndex <= chunkSize <= maxChunkSize
ChunkInv(h) ==
    /\ 0 <= h.chunkIndex
    /\ h.chunkIndex <= h.chunkSize
    /\ h.chunkSize <= h.maxChunkSize
    /\ h.chunk.alloc => Len(h.chunk.buf) = h.chunkSize \/ h.chunkSize = 0

\* C15: on a read-mode handle, whatever Reads and Skips it has taken and
\* takes next (those that an I/O or codec failure ends early included,
\* zero-length frames included), 0 <= chunkIndex <= chunkSize <=
\* maxChunkSize; the file is read only when chunkIndex = chunkSize; and
\* a call that a failed refill ended leaves chunkIndex = chunkSize = 0.
C15_ChunkBuffer ==
    Reading =>
        /\ ChunkInv(rz)
        /\ \A n \in 0..MaxReadLen : \A f \in ReadFaults \cup {NoFault} :
             LET r == Read(rz, disk.bytes, n, f, 0)
                 s == Skip(rz, disk.bytes, n, f)
             IN  /\ ChunkInv(r.rz) /\ ChunkInv(s.rz)
                 /\ r.rv < n => (r.rz.chunkIndex = 0 /\ r.rz.chunkSize = 0)
                 /\ s.rv < n => (s.rz.chunkIndex = 0 /\ s.rz.chunkSize = 0)
                 /\ n <= rz.chunkSize - rz.chunkIndex =>
                      /\ r.rz.pos = rz.pos /\ r.rz.chunk = rz.chunk
                      /\ s.rz.pos = rz.pos /\ s.rz.chunk = rz.chunk
                      /\ r.rv = n /\ s.rv = n

\* on an archive with a zero-length frame a Read has taken the whole
\* stream and failed to refill at the end of the file
C15_Witness ==
    /\ ReadingExt /\ last = "Read"
    /\ \E i \in 1..Len(ref.shape) : ref.shape[i] = 0
    /\ rd.consumed = Len(ref.stream) /\ rd.consumed > MaxChunkBytes
    /\ rz.chunkIndex = 0 /\ rz.chunkSize = 0
    /\ rz.pos = Len(disk.bytes)


\* the handle holds no file and no chunk buffer
Closed(h) == h.file = "null" /\ ~h.chunk.alloc /\ Close(h) = h

\* C16: an Open that returns false, whichever step of it failed, leaves
\* the handle with no file and no chunk buffer, so that a further Open is
\* permitted and a Close changes nothing.
C16_FailedOpenClosed ==
    /\ last = "OpenFailed" => Closed(rz)
    /\ (Running /\ rz.file = "null") =>
         /\ \A f \in OpenReadFaults \cup {NoFault} :
              LET r == OpenRead(rz, disk, f) IN
              /\ ~r.ret => Closed(r.rz)
              /\ f # NoFault => ~r.ret
         /\ \A f \in OpenWriteFaults \cup {NoFault} :
              LET r == OpenWrite(rz, disk, f) IN
              /\ ~r.ret => Closed(r.rz)
              /\ f # NoFault => ~r.ret

\* after a read session that had filled its chunk buffer, an Open on a
\* file that is there has failed
C16_Witness ==
    /\ Running /\ last = "OpenFailed" /\ opens = MaxOpens
    /\ disk.exists /\ rz.chunkSize > 0


\* the failures of a frame's payload: it cannot be read, or it does not
\* decompress
FrameFaults == {f \in ReadFaults : f.kind \in {"payload", "uncompress"}}

\* C17: once a Read or a Skip has returned short because the payload of a
\* frame could not be read or did not decompress, no later Read or Skip
\* on the handle delivers or counts a byte of the frames after it.
C17_PrefixOnly ==
    (Reading /\ rd.clean) =>
        \A n \in 1..MaxReadLen : \A f \in FrameFaults :
            LET r == Read(rz, disk.bytes, n, f, 0)
                s == Skip(rz, disk.bytes, n, f)
            IN  /\ r.tripped =>
                     \A m \in 1..MaxReadLen :
                        /\ Read(r.rz, disk.bytes, m, NoFault, 0).rv = 0
                        /\ Skip(r.rz, disk.bytes, m, NoFault).rv = 0
                /\ s.tripped =>
                     \A m \in 1..MaxReadLen :
                        /\ Read(s.rz, disk.bytes, m, NoFault, 0).rv = 0
                        /\ Skip(s.rz, disk.bytes, m, NoFault).rv = 0


\* C18: for an archive that Writes and a Close left, whatever the total
\* accepted, Open in read mode records that total as size and leaves the
\* file position at offset 20, where the first frame starts.
C18_NoLegacyOnWritten ==
    (Reading /\ Intact /\ wr.calls > 0 /\ last = "OpenRead") =>
        /\ rz.size = Len(wr.accepted)
        /\ rz.pos = HeaderLen


\* Lengths a caller can ask for: short ones and the largest a 32-bit
\* size_t holds, and the first two that need a wider size_t.
NarrowLens == (0..MaxWriteLen) \cup {U32 - 1}
WideLens == {U32, U32 + 1}

\* Write of L bytes, taken now, keeps its promise: every iteration that
\* succeeds accepts min(maxChunkSize, remaining) > 0 bytes, so the call
\* returns, after at most ceil(L / maxChunkSize) iterations, a count that
\* is at most L, and L itself when nothing failed
WriteProgress(L, f) ==
    LET r == Write(rz, disk.bytes, Data(src, Len(wr.accepted), L), f) IN
    /\ ~r.spin
    /\ r.rv <= L
    /\ r.it <= CeilDiv(L, rz.maxChunkSize)
    /\ \A i \in 1..Len(r.ends) :
         r.ends[i][2] > 0
         /\ r.ends[i][2] = Min(rz.maxChunkSize, L - (i - 1) * rz.maxChunkSize)
    /\ f = NoFault => r.rv = L

\* C19: for every requested length, those included whose remaining part
\* is 0 once cast to 32 bits, every iteration of Write that succeeds
\* accepts min(maxChunkSize, remaining) > 0 bytes, and Write returns
\* after finitely many iterations with a count of at most the length.
C19_WriteProgress ==
    Writing =>
        \A L \in NarrowLens \cup WideLens :
        \A f \in WriteFaults \cup {NoFault} : WriteProgress(L, f)


\* the refills a file of that many bytes allows: every refill, the one
\* that fails at the end of the file included, reads a 4-byte length
MaxRefills(bytes) == Len(bytes) \div SizeofU32 + 1

\* a Read or Skip that returned res for a request of L bytes returned
\* after finitely many refills, with at most L bytes, and with fewer only
\* from a refill that failed
ReturnsInBounds(res, L) ==
    /\ ~res.spin
    /\ res.it <= MaxRefills(disk.bytes)
    /\ 0 <= res.rv /\ res.rv <= L
    /\ res.rv < L => (res.rz.chunkIndex = 0 /\ res.rz.chunkSize = 0)

\* C20: on every file content and for every requested length, Read and
\* Skip return after finitely many refills a count rv with
\* 0 <= rv <= length, and rv < length only when a file read or a
\* decompression failed.
C20_ReadTerminates ==
    Reading =>
        \A L \in NarrowLens \cup WideLens :
            /\ ReturnsInBounds(ReadNow(L), L)
            /\ ReturnsInBounds(SkipNow(L), L)
            /\ Len(ReadNow(L).out) = ReadNow(L).rv


====
